---- MODULE Spec2Model ----
(***************************************************************************)
(* Model of log_hooks.go: the process-wide suppression store (errStore),   *)
(* the two mail hooks' Fire methods run by concurrent emitters, the probe  *)
(* of checkMailHookParams, and the set-up of a logger by                   *)
(* UsefulSetupLogrus with the routing of records to the hooks, the Fire of  *)
(* the registered hooks run in sequence and the payload of createMessage.  *)
(*                                                                         *)
(* Time is counted in whole minutes (Minute == 1): time.Now() is the       *)
(* variable now, and a time.Time is a natural number.                      *)
(***************************************************************************)
EXTENDS Integers, Sequences, FiniteSets, TLC

\* ------------------------------------------------------------------ bounds
MaxTime == 2         \* concurrent model: the clock stops ticking here
MaxFires == 2        \* concurrent model: operations started over a run
MaxSeqTime == 12     \* sequential store model: the clock stops ticking here
MaxAlerts == 2       \* sequential store model: alerts marked over a run

\* --------------------------------------------------------------- constants
Minute == 1                          \* time.Minute, the unit of the clock
GeneralWindow == Minute              \* canSendMail: window of the global key
MessageWindow == 10 * Minute         \* canSendMail: window of the message key
generalErr == "general"              \* errStore.generalErr

\* Two emitters log concurrently.
Threads == {"e1", "e2"}
\* Message texts of the records; a record's text may equal the global key.
Messages == {generalErr, "disk full"}

\* ------------------------------------------------------- the store, pure
\* saveErrorTime that writes only a key the map does not hold yet.
saveErrorTime_keepsFirst(m, error, t) ==
    [k \in DOMAIN m \cup {error} |-> IF k \in DOMAIN m THEN m[k] ELSE t]

\* es.errToTime[error] = time.Now(), on the map m at time t.
saveErrorTime(m, error, t) ==
    [k \in DOMAIN m \cup {error} |-> IF k = error THEN t ELSE m[k]]

\* checkErrorTime with !Before in place of After: still suppressed at the
\* instant the window ends.
checkErrorTime_notBefore(m, error, duration, t) ==
    IF error \in DOMAIN m
    THEN IF m[error] + duration >= t THEN FALSE ELSE TRUE
    ELSE TRUE

\* The body of checkErrorTime under the read lock, at time t.
checkErrorTime(m, error, duration, t) ==
    IF error \in DOMAIN m
    THEN IF m[error] + duration > t THEN FALSE ELSE TRUE
    ELSE TRUE

\* canSendMail without its check of the global key.
canSendMail_messageOnly(m, message, tg, tm) ==
    IF ~checkErrorTime(m, message, MessageWindow, tm) THEN FALSE
    ELSE TRUE

\* canSendMail run without interruption: the global key is checked at tg,
\* the message key at tm >= tg.
canSendMail(m, message, tg, tm) ==
    IF ~checkErrorTime(m, generalErr, GeneralWindow, tg) THEN FALSE
    ELSE IF ~checkErrorTime(m, message, MessageWindow, tm) THEN FALSE
    ELSE TRUE

\* markErrAsSent without its stamp of the message text.
markErrAsSent_generalOnly(m, message, tg, tm) ==
    saveErrorTime(m, generalErr, tg)

\* markErrAsSent run without interruption: the global key is stamped at tg,
\* the message key at tm >= tg.
markErrAsSent(m, message, tg, tm) ==
    saveErrorTime(saveErrorTime(m, generalErr, tg), message, tm)

VARIABLES
    now,          \* time.Now()
    errToTime,    \* errStore.errToTime: key -> time of the last stamp
    muWriters,    \* threads holding errToTimeMu exclusively (Lock)
    muReaders,    \* threads holding errToTimeMu shared (RLock)
    pc,           \* per thread: position in the operation it runs
    op,           \* per thread: "MailHook.Fire", "MailAuthHook.Fire", "checkMailHookParams"
    msg,          \* per thread: entry.Message of the record being fired
    res,          \* per thread: what the operation returned ("none" while running)
    conn,         \* per thread: the SMTP client / probe connection
    wc,           \* per thread: the DATA writer
    dials,        \* per thread: connections opened by the running operation
    sends,        \* per thread: smtp.SendMail calls made by the running operation
    fires,        \* operations started so far
    \* history of the running operation, per thread
    okAtMark,     \* at the moment it stamped the global key, both windows had elapsed
    throttled,    \* canSendMail has been false for its record at every instant since it began
    marked,       \* keys it has stamped
    delivered,    \* its payload was handed to the server
    stamped,      \* every (key, time) the emitters have written to the map
    \* sequential store model
    ret,          \* the last call of the store and what it returned
    lastAlert,    \* the last alert marked as sent: its number, text and the times of its two stamps
    sentAt,       \* message text -> time its last alert was marked as sent
    \* set-up and routing
    logger,       \* the logrus.Logger: Out, Level, Formatter, Hooks
    logger0,      \* the logger as it was before UsefulSetupLogrus
    setupIn,      \* the arguments of UsefulSetupLogrus
    setupErr,     \* what UsefulSetupLogrus returned ("none" before the call)
    entry,        \* the level of the last record emitted ("none" before the first)
    fired,        \* the hooks whose Fire ran for that record, in order
    record,       \* the message text and the data of that record
    results,      \* what each of those Fire calls returned, in the same order
    reported,     \* the hooks whose error went to the logger's error channel
    payload,      \* what MailHook.Fire handed to the server for that record (<<>> for nothing)
    mailIn        \* the server MailHook.Fire met, and whether the store permitted the record

seqVars == <<ret, lastAlert, sentAt>>
setupVars ==
    <<logger, logger0, setupIn, setupErr, entry, fired,
      record, results, reported, payload, mailIn>>
storeVars == <<errToTime, muWriters, muReaders, stamped>>
threadVars == <<pc, op, msg, res, conn, wc, dials, sends, fires, okAtMark, throttled, marked, delivered>>
vars == <<now, storeVars, threadVars, seqVars, setupVars>>

\* ------------------------------------------- the store, called in sequence
\* Message texts of the sequential model: one more, never sent by the others.
SeqMessages == Messages \cup {"timeout"}
NoAlert == [n |-> 0, message |-> "none", tg |-> 0, tm |-> 0]
NoCall == [fn |-> "none", key |-> generalErr, duration |-> 0, val |-> TRUE]

InitSeq ==
    /\ ret = NoCall
    /\ lastAlert = NoAlert
    /\ sentAt = <<>>

\* errStore.markErrAsSent(entry) from one goroutine; the clock may advance
\* between its two calls of saveErrorTime.
SeqMarkErrAsSent(m) ==
    /\ lastAlert.n < MaxAlerts
    /\ \E d \in {0, Minute} :
        /\ now + d <= MaxSeqTime
        /\ errToTime' = markErrAsSent(errToTime, m, now, now + d)
        /\ lastAlert' = [n |-> lastAlert.n + 1, message |-> m, tg |-> now, tm |-> now + d]
        /\ sentAt' = [x \in DOMAIN sentAt \cup {m} |-> IF x = m THEN now + d ELSE sentAt[x]]
        /\ now' = now + d
    /\ ret' = [fn |-> "markErrAsSent", key |-> m, duration |-> 0, val |-> TRUE]
    /\ UNCHANGED <<muWriters, muReaders, stamped, threadVars, setupVars>>

\* errStore.canSendMail(entry) from one goroutine; the clock may advance
\* between its two calls of checkErrorTime, the second of which is made only
\* when the first returned true.
SeqCanSendMail(m) ==
    /\ \E d \in {0, Minute} :
        /\ now + d <= MaxSeqTime
        /\ ret' = [fn |-> "canSendMail", key |-> m, duration |-> 0,
                   val |-> canSendMail(errToTime, m, now, now + d)]
        /\ now' = IF checkErrorTime(errToTime, generalErr, GeneralWindow, now)
                  THEN now + d ELSE now
    /\ UNCHANGED <<storeVars, lastAlert, sentAt, threadVars, setupVars>>

\* errStore.checkErrorTime(error, duration) from one goroutine.
SeqCheckErrorTime(k, duration) ==
    /\ ret' = [fn |-> "checkErrorTime", key |-> k, duration |-> duration,
               val |-> checkErrorTime(errToTime, k, duration, now)]
    /\ UNCHANGED <<now, storeVars, lastAlert, sentAt, threadVars, setupVars>>

\* A minute passes with no call of the store in progress.
SeqTick ==
    /\ now < MaxSeqTime
    /\ now' = now + Minute
    /\ ret' = NoCall
    /\ UNCHANGED <<storeVars, lastAlert, sentAt, threadVars, setupVars>>

NextStore ==
    \/ SeqTick
    \/ \E m \in SeqMessages : SeqMarkErrAsSent(m)
    \/ \E m \in SeqMessages : SeqCanSendMail(m)
    \/ \E k \in SeqMessages, duration \in {GeneralWindow, MessageWindow} :
          SeqCheckErrorTime(k, duration)

\* ------------------------------------------------ the concurrent emitters
hookOps == {"MailHook.Fire", "MailAuthHook.Fire"}
Ops == hookOps \cup {"checkMailHookParams"}

\* The deferred calls run in the order they were registered.
NextDefer_connFirst(w, c) ==
    IF c = "open" THEN "close_conn"
    ELSE IF w = "open" THEN "close_wc"
    ELSE "done"

\* The deferred calls of a returning function run last-registered first:
\* wc.Close() (registered after client.Data()) before client.Close().
NextDefer(w, c) ==
    IF w = "open" THEN "close_wc"
    ELSE IF c = "open" THEN "close_conn"
    ELSE "done"

\* `return r` in thread t: the result is set and the deferred closes follow.
Return(t, r) ==
    /\ res' = [res EXCEPT ![t] = r]
    /\ pc' = [pc EXCEPT ![t] = NextDefer(wc[t], conn[t])]

InitStore ==
    /\ now = 0
    /\ errToTime = <<>>
    /\ muWriters = {}
    /\ muReaders = {}
    /\ stamped = {}

InitThreads ==
    /\ pc = [t \in Threads |-> "idle"]
    /\ op = [t \in Threads |-> "MailHook.Fire"]
    /\ msg = [t \in Threads |-> generalErr]
    /\ res = [t \in Threads |-> "none"]
    /\ conn = [t \in Threads |-> "none"]
    /\ wc = [t \in Threads |-> "none"]
    /\ dials = [t \in Threads |-> 0]
    /\ sends = [t \in Threads |-> 0]
    /\ fires = 0
    /\ okAtMark = [t \in Threads |-> TRUE]
    /\ throttled = [t \in Threads |-> FALSE]
    /\ marked = [t \in Threads |-> {}]
    /\ delivered = [t \in Threads |-> FALSE]

\* An emitter's hook is fired with a record of text m, or a hook is being
\* constructed (checkMailHookParams).
Start(t) ==
    /\ pc[t] \in {"idle", "done"}
    /\ fires < MaxFires
    /\ fires' = fires + 1
    /\ \E o \in Ops, m \in Messages :
        /\ o = "checkMailHookParams" => m = generalErr
        /\ op' = [op EXCEPT ![t] = o]
        /\ msg' = [msg EXCEPT ![t] = m]
        /\ pc' = [pc EXCEPT ![t] =
                    CASE o = "MailHook.Fire" -> "dial"
                      [] o = "MailAuthHook.Fire" -> "chk_g"
                      [] o = "checkMailHookParams" -> "p_dial"]
        /\ throttled' = [throttled EXCEPT ![t] =
                    o \in hookOps /\ ~canSendMail(errToTime, m, now, now)]
    /\ res' = [res EXCEPT ![t] = "none"]
    /\ conn' = [conn EXCEPT ![t] = "none"]
    /\ wc' = [wc EXCEPT ![t] = "none"]
    /\ dials' = [dials EXCEPT ![t] = 0]
    /\ sends' = [sends EXCEPT ![t] = 0]
    /\ okAtMark' = [okAtMark EXCEPT ![t] = TRUE]
    /\ marked' = [marked EXCEPT ![t] = {}]
    /\ delivered' = [delivered EXCEPT ![t] = FALSE]
    /\ UNCHANGED <<seqVars, setupVars, now, storeVars>>

\* MailHook.Fire: client, err := smtp.Dial(...); if err != nil { return err }
Dial(t) ==
    /\ pc[t] = "dial"
    /\ \/ /\ conn' = [conn EXCEPT ![t] = "open"]
          /\ dials' = [dials EXCEPT ![t] = @ + 1]
          /\ pc' = [pc EXCEPT ![t] = "chk_g"]
          /\ UNCHANGED res
       \/ /\ Return(t, "err")
          /\ UNCHANGED <<conn, dials>>
    /\ UNCHANGED <<seqVars, setupVars, now, storeVars, op, msg, wc, sends, fires, okAtMark, throttled, marked, delivered>>

\* checkErrorTime: es.errToTimeMu.RLock()
RLock(t) ==
    /\ pc[t] \in {"chk_g", "chk_m"}
    /\ muWriters = {}
    /\ muReaders' = muReaders \cup {t}
    /\ pc' = [pc EXCEPT ![t] = IF pc[t] = "chk_g" THEN "chk_g_r" ELSE "chk_m_r"]
    /\ UNCHANGED <<seqVars, setupVars, now, errToTime, muWriters, stamped, op, msg, res, conn, wc, dials, sends,
                   fires, okAtMark, throttled, marked, delivered>>

\* checkErrorTime: the look-up and comparison, then the deferred RUnlock;
\* canSendMail returns false on the first key that fails, and Fire then
\* returns nil.
CheckAndRUnlock(t) ==
    /\ pc[t] \in {"chk_g_r", "chk_m_r"}
    /\ muReaders' = muReaders \ {t}
    /\ LET general == pc[t] = "chk_g_r"
           ok == IF general
                 THEN checkErrorTime(errToTime, generalErr, GeneralWindow, now)
                 ELSE checkErrorTime(errToTime, msg[t], MessageWindow, now)
       IN  IF ~ok THEN Return(t, "nil")
           ELSE /\ pc' = [pc EXCEPT ![t] =
                            IF general THEN "chk_m"
                            ELSE IF op[t] = "MailHook.Fire" THEN "mail"
                            ELSE "mark_g"]
                /\ UNCHANGED res
    /\ UNCHANGED <<seqVars, setupVars, now, errToTime, muWriters, stamped, op, msg, conn, wc, dials, sends,
                   fires, okAtMark, throttled, marked, delivered>>

\* MailHook.Fire: client.Mail(hook.sender)
Mail(t) ==
    /\ pc[t] = "mail"
    /\ \/ pc' = [pc EXCEPT ![t] = "rcpt"] /\ UNCHANGED res
       \/ Return(t, "err")
    /\ UNCHANGED <<seqVars, setupVars, now, storeVars, op, msg, conn, wc, dials, sends, fires, okAtMark,
                   throttled, marked, delivered>>

\* MailHook.Fire: client.Rcpt(hook.recipient)
Rcpt(t) ==
    /\ pc[t] = "rcpt"
    /\ \/ pc' = [pc EXCEPT ![t] = "data"] /\ UNCHANGED res
       \/ Return(t, "err")
    /\ UNCHANGED <<seqVars, setupVars, now, storeVars, op, msg, conn, wc, dials, sends, fires, okAtMark,
                   throttled, marked, delivered>>

\* MailHook.Fire: wc, err := client.Data()
Data(t) ==
    /\ pc[t] = "data"
    /\ \/ /\ wc' = [wc EXCEPT ![t] = "open"]
          /\ pc' = [pc EXCEPT ![t] = "mark_g"]
          /\ UNCHANGED res
       \/ /\ Return(t, "err")
          /\ UNCHANGED wc
    /\ UNCHANGED <<seqVars, setupVars, now, storeVars, op, msg, conn, dials, sends, fires, okAtMark,
                   throttled, marked, delivered>>

\* Lock that waits for the writer only, not for the readers.
Lock_ignoresReaders(t) ==
    /\ pc[t] \in {"mark_g", "mark_m"}
    /\ muWriters = {}
    /\ muWriters' = muWriters \cup {t}
    /\ pc' = [pc EXCEPT ![t] = IF pc[t] = "mark_g" THEN "mark_g_w" ELSE "mark_m_w"]
    /\ UNCHANGED <<seqVars, setupVars, now, errToTime, muReaders, stamped, op, msg, res, conn, wc, dials, sends,
                   fires, okAtMark, throttled, marked, delivered>>

\* saveErrorTime: es.errToTimeMu.Lock()
Lock(t) ==
    /\ pc[t] \in {"mark_g", "mark_m"}
    /\ muWriters = {}
    /\ muReaders = {}
    /\ muWriters' = muWriters \cup {t}
    /\ pc' = [pc EXCEPT ![t] = IF pc[t] = "mark_g" THEN "mark_g_w" ELSE "mark_m_w"]
    /\ UNCHANGED <<seqVars, setupVars, now, errToTime, muReaders, stamped, op, msg, res, conn, wc, dials, sends,
                   fires, okAtMark, throttled, marked, delivered>>

\* saveErrorTime returning without the deferred Unlock.
SaveAndUnlock_keepsLock(t) ==
    /\ pc[t] \in {"mark_g_w", "mark_m_w"}
    /\ muWriters' = muWriters
    /\ LET general == pc[t] = "mark_g_w"
           key == IF general THEN generalErr ELSE msg[t]
       IN  /\ errToTime' = saveErrorTime(errToTime, key, now)
           /\ stamped' = stamped \cup {<<key, now>>}
           /\ marked' = [marked EXCEPT ![t] = @ \cup {key}]
           /\ okAtMark' = [okAtMark EXCEPT ![t] =
                             IF general THEN canSendMail(errToTime, msg[t], now, now) ELSE @]
           /\ pc' = [pc EXCEPT ![t] =
                       IF general THEN "mark_m"
                       ELSE IF op[t] = "MailHook.Fire" THEN "write"
                       ELSE "sendmail"]
    /\ UNCHANGED <<seqVars, setupVars, now, muReaders, op, msg, res, conn, wc, dials, sends, fires, throttled, delivered>>

\* saveErrorTime: es.errToTime[error] = time.Now(), then the deferred Unlock.
\* markErrAsSent stamps the global key first, the message text second.
SaveAndUnlock(t) ==
    /\ pc[t] \in {"mark_g_w", "mark_m_w"}
    /\ muWriters' = muWriters \ {t}
    /\ LET general == pc[t] = "mark_g_w"
           key == IF general THEN generalErr ELSE msg[t]
       IN  /\ errToTime' = saveErrorTime(errToTime, key, now)
           /\ stamped' = stamped \cup {<<key, now>>}
           /\ marked' = [marked EXCEPT ![t] = @ \cup {key}]
           /\ okAtMark' = [okAtMark EXCEPT ![t] =
                             IF general THEN canSendMail(errToTime, msg[t], now, now) ELSE @]
           /\ pc' = [pc EXCEPT ![t] =
                       IF general THEN "mark_m"
                       ELSE IF op[t] = "MailHook.Fire" THEN "write"
                       ELSE "sendmail"]
    /\ UNCHANGED <<seqVars, setupVars, now, muReaders, op, msg, res, conn, wc, dials, sends, fires, throttled, delivered>>

\* MailHook.Fire: message.WriteTo(wc)
Write(t) ==
    /\ pc[t] = "write"
    /\ \/ Return(t, "nil") /\ delivered' = [delivered EXCEPT ![t] = TRUE]
       \/ Return(t, "err") /\ UNCHANGED delivered
    /\ UNCHANGED <<seqVars, setupVars, now, storeVars, op, msg, conn, wc, dials, sends, fires, okAtMark,
                   throttled, marked>>

\* MailAuthHook.Fire calling smtp.SendMail again after a failed call.
SendMail_retry(t) ==
    /\ pc[t] = "sendmail"
    /\ sends' = [sends EXCEPT ![t] = @ + 1]
    /\ \/ Return(t, "nil") /\ delivered' = [delivered EXCEPT ![t] = TRUE]
       \/ sends[t] = 0 /\ UNCHANGED <<pc, res, delivered>>
       \/ sends[t] > 0 /\ Return(t, "err") /\ UNCHANGED delivered
    /\ UNCHANGED <<seqVars, setupVars, now, storeVars, op, msg, conn, wc, dials, fires, okAtMark,
                   throttled, marked>>
\* MailAuthHook.Fire: smtp.SendMail(...), one call that connects,
\* authenticates and sends.
SendMail(t) ==
    /\ pc[t] = "sendmail"
    /\ sends' = [sends EXCEPT ![t] = @ + 1]
    /\ \/ Return(t, "nil") /\ delivered' = [delivered EXCEPT ![t] = TRUE]
       \/ Return(t, "err") /\ UNCHANGED delivered
    /\ UNCHANGED <<seqVars, setupVars, now, storeVars, op, msg, conn, wc, dials, fires, okAtMark,
                   throttled, marked>>

\* defer func() { _ = wc.Close() }()
CloseWc(t) ==
    /\ pc[t] = "close_wc"
    /\ wc' = [wc EXCEPT ![t] = "closed"]
    /\ pc' = [pc EXCEPT ![t] = NextDefer("closed", conn[t])]
    /\ UNCHANGED <<seqVars, setupVars, now, storeVars, op, msg, res, conn, dials, sends, fires, okAtMark,
                   throttled, marked, delivered>>

\* defer func() { _ = client.Close() }() and, in checkMailHookParams,
\* defer func() { _ = conn.Close() }()
CloseConn(t) ==
    /\ pc[t] = "close_conn"
    /\ conn' = [conn EXCEPT ![t] = "closed"]
    /\ pc' = [pc EXCEPT ![t] = NextDefer(wc[t], "closed")]
    /\ UNCHANGED <<seqVars, setupVars, now, storeVars, op, msg, res, wc, dials, sends, fires, okAtMark,
                   throttled, marked, delivered>>

\* checkMailHookParams: conn, err := net.DialTimeout("tcp", ..., 3*time.Second)
ProbeDial(t) ==
    /\ pc[t] = "p_dial"
    /\ \/ /\ conn' = [conn EXCEPT ![t] = "open"]
          /\ dials' = [dials EXCEPT ![t] = @ + 1]
          /\ pc' = [pc EXCEPT ![t] = "p_sender"]
          /\ UNCHANGED res
       \/ /\ Return(t, "err")
          /\ UNCHANGED <<conn, dials>>
    /\ UNCHANGED <<seqVars, setupVars, now, storeVars, op, msg, wc, sends, fires, okAtMark, throttled, marked, delivered>>

\* checkMailHookParams: mail.ParseAddress(sender)
ProbeSender(t) ==
    /\ pc[t] = "p_sender"
    /\ \/ pc' = [pc EXCEPT ![t] = "p_recipient"] /\ UNCHANGED res
       \/ Return(t, "err")
    /\ UNCHANGED <<seqVars, setupVars, now, storeVars, op, msg, conn, wc, dials, sends, fires, okAtMark,
                   throttled, marked, delivered>>

\* checkMailHookParams: mail.ParseAddress(recipient), return nil
ProbeRecipient(t) ==
    /\ pc[t] = "p_recipient"
    /\ \/ Return(t, "nil")
       \/ Return(t, "err")
    /\ UNCHANGED <<seqVars, setupVars, now, storeVars, op, msg, conn, wc, dials, sends, fires, okAtMark,
                   throttled, marked, delivered>>

\* A minute passes. A running hook's record stays throttled only if it is
\* still inside a window at the new time.
Tick ==
    /\ now < MaxTime
    /\ now' = now + Minute
    /\ throttled' = [t \in Threads |->
                       throttled[t] /\ ~canSendMail(errToTime, msg[t], now', now')]
    /\ UNCHANGED <<seqVars, setupVars, storeVars, pc, op, msg, res, conn, wc, dials, sends, fires, okAtMark,
                   marked, delivered>>

\* A step of emitter t.
Step(t) ==
    \/ Start(t)
    \/ Dial(t)
    \/ RLock(t)
    \/ CheckAndRUnlock(t)
    \/ Mail(t)
    \/ Rcpt(t)
    \/ Data(t)
    \/ Lock(t)
    \/ SaveAndUnlock(t)
    \/ Write(t)
    \/ SendMail(t)
    \/ CloseWc(t)
    \/ CloseConn(t)
    \/ ProbeDial(t)
    \/ ProbeSender(t)
    \/ ProbeRecipient(t)

Next ==
    \/ Tick
    \/ \E t \in Threads : Step(t)

\* The emitters within one minute of the clock.
NextStill == \E t \in Threads : Step(t)

\* ------------------------------------------------------ set-up and routing
\* logrus' levels, most severe first (PanicLevel = 0 ... TraceLevel = 6).
AllLevels == <<"panic", "fatal", "error", "warn", "info", "debug", "trace">>
LevelNames == {AllLevels[i] : i \in DOMAIN AllLevels}
LevelRank(l) == CHOOSE i \in DOMAIN AllLevels : AllLevels[i] = l

\* (hook *MailAuthHook) Levels()
MailAuthHookLevels == {"warn", "panic", "fatal", "error"}
\* MailHook.Levels without WarnLevel.
MailHookLevels_noWarn == {"panic", "fatal", "error"}
\* (hook *MailHook) Levels()
MailHookLevels == {"warn", "panic", "fatal", "error"}
\* StderrHook.Levels without PanicLevel.
StderrHookLevels_noPanic == {"warn", "fatal", "error"}
\* (hook *StderrHook) Levels()
StderrHookLevels == {"warn", "panic", "fatal", "error"}

Levels(hook) ==
    CASE hook = "StderrHook" -> StderrHookLevels
      [] hook = "MailHook" -> MailHookLevels
      [] hook = "MailAuthHook" -> MailAuthHookLevels

\* logrus.New(): output to stderr, level info, text formatter, no hooks.
NewLogger == [out |-> "stderr", level |-> "info", formatter |-> "text", hooks |-> <<>>]
\* The loggers UsefulSetupLogrus is handed: a new one, and one the
\* application has already configured otherwise.
Loggers0 ==
    {NewLogger,
     [out |-> "stdout", level |-> "trace", formatter |-> "json", hooks |-> <<>>]}

\* The arguments of UsefulSetupLogrus, by what the calls it makes say of them:
\* hostPort: net.SplitHostPort(mailHostPort) succeeds; port: strconv.Atoi of
\* the port succeeds; level: the level name; reachable: the endpoint accepts
\* a connection; sender, recipient: mail.ParseAddress succeeds.
SetupInputs ==
    [hostPort : BOOLEAN, port : BOOLEAN, level : LevelNames \cup {"loud"},
     format : {"json", "text"}, reachable : BOOLEAN,
     sender : BOOLEAN, recipient : BOOLEAN]
NoInput ==
    [hostPort |-> TRUE, port |-> TRUE, level |-> "info", format |-> "text",
     reachable |-> TRUE, sender |-> TRUE, recipient |-> TRUE]

\* checkMailHookParams without the check of the recipient.
checkMailHookParams_skipsRecipient(reachable, sender, recipient) ==
    IF ~reachable THEN "dial"
    ELSE IF ~sender THEN "sender"
    ELSE "nil"

\* checkMailHookParams as a whole: the error it returns, "nil" for none.
checkMailHookParams(reachable, sender, recipient) ==
    IF ~reachable THEN "dial"
    ELSE IF ~sender THEN "sender"
    ELSE IF ~recipient THEN "recipient"
    ELSE "nil"

\* NewMailHook: the error of checkMailHookParams, else the hook.
NewMailHook(reachable, sender, recipient) ==
    LET err == checkMailHookParams(reachable, sender, recipient)
    IN  IF err # "nil" THEN [hook |-> "none", err |-> err]
        ELSE [hook |-> "MailHook", err |-> "nil"]

\* UsefulSetupLogrus adding the mail hook before the stderr hook.
UsefulSetupLogrus_mailFirst(log, in) ==
    LET l1 == [log EXCEPT !.out = "stdout"]
        l2 == [l1 EXCEPT !.level = in.level]
        mh == NewMailHook(in.reachable, in.sender, in.recipient)
        l3 == [l2 EXCEPT !.hooks = Append(@, mh.hook)]
        l4 == [l3 EXCEPT !.hooks = Append(@, "StderrHook")]
        l5 == [l4 EXCEPT !.formatter =
                 IF in.format = "json" THEN "json" ELSE "text full timestamp"]
    IN  IF ~in.hostPort THEN [log |-> l1, err |-> "SplitHostPort"]
        ELSE IF ~in.port THEN [log |-> l1, err |-> "Atoi"]
        ELSE IF in.level \notin LevelNames THEN [log |-> l1, err |-> "ParseLevel"]
        ELSE IF mh.err # "nil" THEN [log |-> l2, err |-> mh.err]
        ELSE [log |-> l5, err |-> "nil"]

\* UsefulSetupLogrus on logger log with arguments in: the logger it leaves
\* and the error it returns ("nil" for none).
UsefulSetupLogrus(log, in) ==
    LET l1 == [log EXCEPT !.out = "stdout"]
        l2 == [l1 EXCEPT !.level = in.level]
        l3 == [l2 EXCEPT !.hooks = Append(@, "StderrHook")]
        mh == NewMailHook(in.reachable, in.sender, in.recipient)
        l4 == [l3 EXCEPT !.hooks = Append(@, mh.hook)]
        l5 == [l4 EXCEPT !.formatter =
                 IF in.format = "json" THEN "json" ELSE "text full timestamp"]
    IN  IF ~in.hostPort THEN [log |-> l1, err |-> "SplitHostPort"]
        ELSE IF ~in.port THEN [log |-> l1, err |-> "Atoi"]
        ELSE IF in.level \notin LevelNames THEN [log |-> l1, err |-> "ParseLevel"]
        ELSE IF mh.err # "nil" THEN [log |-> l3, err |-> mh.err]
        ELSE [log |-> l5, err |-> "nil"]

NoRecord == [message |-> "none", data |-> "fields"]
NoMail == [server |-> "none", permitted |-> FALSE]
\* Nothing has been emitted yet.
InitEmit ==
    /\ record = NoRecord
    /\ results = <<>>
    /\ reported = <<>>
    /\ payload = <<>>
    /\ mailIn = NoMail

InitLogger ==
    /\ logger = NewLogger
    /\ logger0 = NewLogger
    /\ setupIn = NoInput
    /\ setupErr = "none"
    /\ entry = "none"
    /\ fired = <<>>
    /\ InitEmit

InitSetup ==
    /\ logger \in Loggers0
    /\ logger0 = logger
    /\ setupIn = NoInput
    /\ setupErr = "none"
    /\ entry = "none"
    /\ fired = <<>>
    /\ InitEmit

\* The application calls UsefulSetupLogrus once on its logger.
Setup ==
    /\ setupErr = "none"
    /\ \E in \in SetupInputs :
        /\ setupIn' = in
        /\ logger' = UsefulSetupLogrus(logger, in).log
        /\ setupErr' = UsefulSetupLogrus(logger, in).err
    /\ UNCHANGED <<now, storeVars, threadVars, seqVars, logger0, entry, fired,
                   record, results, reported, payload, mailIn>>

\* The hooks registered on the logger for level l, in registration order.
HooksFor(log, l) ==
    LET at(h) == l \in Levels(h)
    IN  SelectSeq(log.hooks, at)

\* The mail server during one MailHook.Fire, by the first step that fails:
\* the dial, one of MAIL, RCPT and DATA, the write of the payload, or none.
Servers == {"down", "rejects", "write fails", "accepts"}
\* entry.Data: fields json can render, or fields it cannot (a channel, a func).
Datas == {"fields", "unrenderable"}
\* The appName argument of UsefulSetupLogrus, kept in MailHook.appname.
AppName == "svc"

\* json.MarshalIndent(entry.Data, "", "\t"): the bytes and the error.
jsonMarshalIndent(data) ==
    IF data = "fields" THEN [bytes |-> "{\n\t\"k\": \"v\"\n}", err |-> "nil"]
    ELSE [bytes |-> "", err |-> "unsupported type"]

\* createMessage giving up with an empty buffer when the data do not render.
createMessage_abortsOnError(e, appname) ==
    IF jsonMarshalIndent(e.data).err # "nil" THEN <<>>
    ELSE <<"Subject: ", appname, " - ", e.level, "\r\n\r\n",
           "TIME: ", ToString(e.time), "\n", "MESSAGE: ", e.message, "\n\n",
           "DATA: ", jsonMarshalIndent(e.data).bytes, "\n\n",
           "STACKTRACE: \n", "debug.Stack()">>
\* createMessage: the buffer it returns, as the sequence of the pieces it
\* concatenates; the error of json.MarshalIndent is dropped.
createMessage(e, appname) ==
    LET data == jsonMarshalIndent(e.data).bytes
    IN  <<"Subject: ", appname, " - ", e.level, "\r\n\r\n",
          "TIME: ", ToString(e.time), "\n", "MESSAGE: ", e.message, "\n\n",
          "DATA: ", data, "\n\n",
          "STACKTRACE: \n", "debug.Stack()">>

\* (hook *MailHook) Fire run without interruption at time t on store m with
\* the given server: the store it leaves, the error it returns and the
\* payload the server has received (<<>> for none).
MailHookFire(m, e, t, server) ==
    IF server = "down" THEN [store |-> m, err |-> "err", payload |-> <<>>]
    ELSE IF ~canSendMail(m, e.message, t, t)
    THEN [store |-> m, err |-> "nil", payload |-> <<>>]
    ELSE IF server = "rejects"
    THEN [store |-> m, err |-> "err", payload |-> <<>>]
    ELSE LET m2 == markErrAsSent(m, e.message, t, t)
             message == createMessage(e, AppName)
         IN  IF server = "write fails"
             THEN [store |-> m2, err |-> "err", payload |-> <<>>]
             ELSE [store |-> m2, err |-> "nil", payload |-> message]

\* (hook *StderrHook) Fire: the error of textFormater.Format, which it
\* returns; the line is written to stderr only when there is none.
StderrHookFire(formatOk) == IF formatOk THEN "nil" ELSE "err"

\* The logger emits a record of level l: the level must be enabled, and the
\* Fire of every hook registered for l runs, in registration order, whatever
\* the hooks before it returned; the errors go to the logger's error channel
\* and the log call returns. The record's text, its data, the formatter's
\* and the server's behaviour vary where a hook that runs reads them.
Emit(l) ==
    /\ setupErr # "none"
    /\ LevelRank(l) <= LevelRank(logger.level)
    /\ LET hooks == HooksFor(logger, l)
           console == \E i \in DOMAIN hooks : hooks[i] = "StderrHook"
           mail == \E i \in DOMAIN hooks : hooks[i] = "MailHook"
       IN  \E message \in IF console \/ mail THEN Messages ELSE {generalErr},
              data \in IF mail THEN Datas ELSE {"fields"},
              formatOk \in IF console THEN BOOLEAN ELSE {TRUE},
              server \in IF mail THEN Servers ELSE {"none"} :
            LET e == [level |-> l, message |-> message, data |-> data,
                      time |-> now]
                mf == MailHookFire(errToTime, e, now, server)
                FireOf(h) == IF h = "StderrHook" THEN StderrHookFire(formatOk)
                             ELSE mf.err
                failed(h) == FireOf(h) # "nil"
            IN  /\ entry' = l
                /\ record' = [message |-> message, data |-> data]
                /\ fired' = hooks
                /\ results' = [i \in DOMAIN hooks |-> FireOf(hooks[i])]
                /\ reported' = SelectSeq(hooks, failed)
                /\ payload' = IF mail THEN mf.payload ELSE <<>>
                /\ mailIn' = IF mail
                             THEN [server |-> server,
                                   permitted |-> canSendMail(errToTime, message, now, now)]
                             ELSE NoMail
                /\ errToTime' = IF mail THEN mf.store ELSE errToTime
    /\ UNCHANGED <<now, muWriters, muReaders, stamped, threadVars, seqVars,
                   logger, logger0, setupIn, setupErr>>

NextSetup ==
    \/ Setup
    \/ \E l \in LevelNames : Emit(l)

Init == InitStore /\ InitThreads /\ InitSeq /\ InitLogger

Spec == Init /\ [][Next]_vars

\* A step of a call of the store by emitter t: acquire the lock when it is
\* free, or run the body and release it.
StoreStep(t) ==
    \/ RLock(t)
    \/ CheckAndRUnlock(t)
    \/ Lock(t)
    \/ SaveAndUnlock(t)

\* The emitters under a fair scheduler: a goroutine that can take a step of a
\* store call eventually takes it. Nothing is assumed of the steps that wait
\* for the mail server.
StoreFairness == \A t \in Threads : WF_vars(StoreStep(t))

\* The fair emitters, within one minute of the clock: whether a call of the
\* store completes does not depend on the time it reads.
SpecFair == Init /\ [][NextStill]_vars /\ StoreFairness

SpecStore == Init /\ [][NextStore]_vars

InitLoggers == InitStore /\ InitThreads /\ InitSeq /\ InitSetup

SpecSetup == InitLoggers /\ [][NextSetup]_vars

\* ------------------------------------------------------------------ claims
Reading(t) == pc[t] \in {"chk_g_r", "chk_m_r"}
Writing(t) == pc[t] \in {"mark_g_w", "mark_m_w"}
Count(h, hooks) == Cardinality({i \in DOMAIN hooks : hooks[i] = h})

\* C1: under every interleaving of the emitters, a mail is delivered only if,
\* at the moment it was marked as sent, neither the global key had a stamp
\* younger than a minute nor the message key one younger than ten minutes.
C1_DeliveredOnlyIfPermitted ==
    \A t \in Threads : delivered[t] => okAtMark[t]

\* C2: a MailHook.Fire that fails at a step after the suppression check (MAIL,
\* RCPT, DATA or the payload write) has stamped both the global key and the
\* message key all the same.
C2_FailedSendStillMarks ==
    \A t \in Threads :
        (op[t] = "MailHook.Fire" /\ pc[t] = "done" /\ res[t] = "err" /\ dials[t] = 1)
            => {generalErr, msg[t]} \subseteq marked[t]

\* C3: once an alert of text m has been marked as sent at time t, canSendMail
\* for text m returns false at every time before t + 10 minutes, and true
\* from t + 10 minutes on when no other alert was marked in between.
C3_SuppressionIdempotence ==
    ret.fn = "canSendMail" =>
        /\ (ret.key \in DOMAIN sentAt /\ now < sentAt[ret.key] + MessageWindow)
              => ret.val = FALSE
        /\ (lastAlert.n > 0 /\ lastAlert.message = ret.key
              /\ now >= lastAlert.tm + MessageWindow)
              => ret.val = TRUE

\* C3, its case: canSendMail returns true for the text of the last alert at
\* the very instant its ten minutes have elapsed.
C3_Witness ==
    /\ ret.fn = "canSendMail" /\ ret.val = TRUE
    /\ lastAlert.n > 0 /\ lastAlert.message = ret.key
    /\ now = lastAlert.tm + MessageWindow

\* C4: once any alert has been marked as sent at time t, canSendMail returns
\* false for every record, whatever its text, at every time before t + 1 minute.
C4_GlobalThrottleDominance ==
    (ret.fn = "canSendMail" /\ lastAlert.n > 0 /\ now < lastAlert.tg + GeneralWindow)
        => ret.val = FALSE

\* C4, its case: a record whose text was never sent is refused within the
\* minute after an alert of another text.
C4_Witness ==
    /\ ret.fn = "canSendMail" /\ ret.val = FALSE
    /\ ret.key # generalErr /\ ret.key \notin DOMAIN sentAt
    /\ lastAlert.n > 0 /\ now < lastAlert.tg + GeneralWindow

\* C5: a hook fired for a record that canSendMail refuses throughout the call
\* returns nil, sends no mail and stamps nothing, whatever the mail server does.
C5_ThrottledIsSilentNoOp ==
    \A t \in Threads :
        (op[t] \in hookOps /\ pc[t] = "done" /\ throttled[t])
            => (res[t] = "nil" /\ ~delivered[t] /\ marked[t] = {})

\* C6: on a logger set up by UsefulSetupLogrus, a trace, debug or info record
\* runs neither hook, and a warn, error, fatal or panic record runs
\* StderrHook.Fire exactly once and MailHook.Fire exactly once.
C6_SeverityRouting ==
    (setupErr = "nil" /\ entry # "none") =>
        IF entry \in {"trace", "debug", "info"}
        THEN Count("StderrHook", fired) = 0 /\ Count("MailHook", fired) = 0
        ELSE Count("StderrHook", fired) = 1 /\ Count("MailHook", fired) = 1

\* C6, its case: a warn record on a logger set up without error.
C6_Witness ==
    /\ setupErr = "nil" /\ entry = "warn"
    /\ Count("StderrHook", fired) = 1 /\ Count("MailHook", fired) = 1

\* C7: when UsefulSetupLogrus returns an error, the logger is as it was
\* before the call: output, level, formatter and hooks.
C7_NoPartialSetup ==
    setupErr \notin {"none", "nil"} => logger = logger0

\* C8: the map is never read while it is written nor written by two threads
\* at once, every read being under the read lock and every write under the
\* exclusive lock, and the map is what the writes made so far leave when run
\* in some order: each key written holds one of the times written to it.
C8_StoreIsRaceFree ==
    /\ \A t \in Threads : Reading(t) => (t \in muReaders /\ muWriters = {})
    /\ \A t \in Threads : Writing(t) => (muWriters = {t} /\ muReaders = {})
    /\ \A t, u \in Threads : (t # u /\ Writing(t)) => (~Writing(u) /\ ~Reading(u))
    /\ DOMAIN errToTime = {s[1] : s \in stamped}
    /\ \A k \in DOMAIN errToTime : <<k, errToTime[k]>> \in stamped

\* C8, its case: one emitter is writing the global key a second time while
\* the other is waiting to read or to write it.
C8_Witness ==
    \E t, u \in Threads :
        /\ t # u
        /\ pc[t] = "mark_m_w" /\ msg[t] = generalErr
        /\ pc[u] \in {"chk_g", "mark_g"}
        /\ generalErr \in DOMAIN errToTime

\* C9: an operation opens at most one connection; when it has returned, the
\* connection it opened is closed, on every path; the DATA writer, when
\* opened, is closed before the connection. This holds of MailHook.Fire and
\* of checkMailHookParams alike.
C9_ConnectionsReleased ==
    \A t \in Threads :
        /\ dials[t] <= 1
        /\ pc[t] = "done" => (conn[t] # "open" /\ wc[t] # "open")
        /\ (pc[t] = "done" /\ dials[t] = 1) => conn[t] = "closed"
        /\ conn[t] = "closed" => wc[t] # "open"

\* C9, its case: a MailHook.Fire whose payload write failed has returned with
\* writer and connection closed, and a probe has returned with an error and
\* its connection closed.
C9_Witness ==
    \E t, u \in Threads :
        /\ op[t] = "MailHook.Fire" /\ pc[t] = "done" /\ res[t] = "err"
        /\ wc[t] = "closed" /\ conn[t] = "closed"
        /\ op[u] = "checkMailHookParams" /\ pc[u] = "done" /\ res[u] = "err"
        /\ conn[u] = "closed"

\* C10: checkErrorTime(key, window) returns true exactly when the store has
\* no entry for key or the entry's time plus window is not after the current
\* time.
C10_CheckErrorTime ==
    ret.fn = "checkErrorTime" =>
        (ret.val = TRUE <=>
            (ret.key \notin DOMAIN errToTime
                \/ errToTime[ret.key] + ret.duration <= now))

\* C10, its case: the call is made at exactly the entry's time plus window
\* and returns true.
C10_Witness ==
    /\ ret.fn = "checkErrorTime" /\ ret.val = TRUE
    /\ ret.key \in DOMAIN errToTime
    /\ errToTime[ret.key] + ret.duration = now

\* The severities every hook of this repository is registered for.
AlertLevels == {"warn", "panic", "fatal", "error"}
\* The position of hook h among the hooks that ran (0 when it did not run).
FiredAt(h) ==
    IF \E i \in DOMAIN fired : fired[i] = h
    THEN CHOOSE i \in DOMAIN fired : fired[i] = h
    ELSE 0

C12_SetupErrorIff ==
    setupErr # "none" =>
        /\ (setupErr # "nil") <=>
              \/ ~setupIn.hostPort
              \/ ~setupIn.port
              \/ setupIn.level \notin LevelNames
              \/ ~setupIn.reachable
              \/ ~setupIn.sender
              \/ ~setupIn.recipient
        /\ setupErr = "nil" =>
              /\ Len(logger.hooks) = 2
              /\ Count("StderrHook", logger.hooks) = 1
              /\ Count("MailHook", logger.hooks) = 1
\* The only thing wrong is the recipient, the last thing checked, and the
\* call returns its error.
C12_Witness ==
    /\ setupErr = "recipient"
    /\ setupIn.hostPort /\ setupIn.port /\ setupIn.level \in LevelNames
    /\ setupIn.reachable /\ setupIn.sender /\ ~setupIn.recipient

\* C19: for a record of an alert severity on a logger that was set up
\* successfully, StderrHook.Fire runs before MailHook.Fire, the two run one
\* after the other, and both have run when the emitting call is over.
C19_ConsoleBeforeMail ==
    (setupErr = "nil" /\ entry \in AlertLevels) =>
        /\ FiredAt("StderrHook") > 0
        /\ FiredAt("StderrHook") < FiredAt("MailHook")
        /\ Len(results) = Len(fired)
\* A fatal record went to the console first and then to the mail server.
C19_Witness ==
    /\ setupErr = "nil"
    /\ entry = "fatal"
    /\ fired = <<"StderrHook", "MailHook">>
    /\ results = <<"nil", "nil">>
    /\ payload # <<>>

\* C20: when the record's data cannot be rendered as JSON, createMessage
\* still returns a payload of the form "Subject: <app> - <level>", a blank
\* line, then the TIME, MESSAGE, DATA and STACKTRACE sections, with an empty
\* rendering in the DATA section; MailHook.Fire delivers it, returns nil and
\* marks the alert as sent.
C20_UnrenderableDataStillSent ==
    (/\ FiredAt("MailHook") > 0
     /\ record.data = "unrenderable"
     /\ mailIn.permitted
     /\ mailIn.server = "accepts") =>
        /\ payload =
              <<"Subject: ", AppName, " - ", entry, "\r\n\r\n",
                "TIME: ", ToString(now), "\n", "MESSAGE: ", record.message, "\n\n",
                "DATA: ", "", "\n\n", "STACKTRACE: \n", "debug.Stack()">>
        /\ results[FiredAt("MailHook")] = "nil"
        /\ \A k \in {generalErr, record.message} :
              k \in DOMAIN errToTime /\ errToTime[k] = now
\* A record with data json cannot render was delivered.
C20_Witness ==
    /\ record.data = "unrenderable"
    /\ mailIn.permitted
    /\ mailIn.server = "accepts"
    /\ payload # <<>>
    /\ payload[13] = ""

\* C13: in MailHook.Fire the check of canSendMail comes before the dial, so
\* that for a record that is suppressed no connection to the mail server is
\* opened.
C13_CheckPrecedesDial ==
    \A t \in Threads :
        (op[t] = "MailHook.Fire" /\ throttled[t]) => dials[t] = 0

\* C14: MailAuthHook.Fire calls smtp.SendMail at most once, and only after
\* it has stamped both the global key and the record's text: the windows are
\* consumed whether the call then succeeds or fails; when canSendMail refuses
\* the record it returns nil without stamping or sending.
C14_AuthMarksBeforeSingleSend ==
    \A t \in Threads :
        op[t] = "MailAuthHook.Fire" =>
            /\ sends[t] <= 1
            /\ (pc[t] = "sendmail" \/ sends[t] > 0) =>
                  /\ marked[t] = {generalErr, msg[t]}
                  /\ marked[t] \subseteq DOMAIN errToTime
            /\ (pc[t] = "done" /\ res[t] = "err") => sends[t] = 1
            /\ (pc[t] = "done" /\ sends[t] = 0) =>
                  (res[t] = "nil" /\ marked[t] = {} /\ ~delivered[t])
            /\ delivered[t] => sends[t] = 1
\* MailAuthHook.Fire has returned the error of its one smtp.SendMail, with
\* both keys stamped.
C14_Witness ==
    \E t \in Threads :
        /\ op[t] = "MailAuthHook.Fire"
        /\ pc[t] = "done"
        /\ res[t] = "err"
        /\ sends[t] = 1
        /\ marked[t] = {generalErr, msg[t]}
        /\ msg[t] # generalErr

\* C15: markErrAsSent stamps the current time on exactly two keys, the
\* global key and the record's text, and leaves every other entry as it was;
\* no call removes an entry; canSendMail and checkErrorTime leave the map as
\* it was.
C15_MarkStampsTwoKeys ==
    [][
        /\ DOMAIN errToTime \subseteq DOMAIN errToTime'
        /\ ret'.fn \in {"canSendMail", "checkErrorTime"} => errToTime' = errToTime
        /\ lastAlert'.n = lastAlert.n + 1 =>
              /\ \A k \in DOMAIN errToTime \ {generalErr, lastAlert'.message} :
                    errToTime'[k] = errToTime[k]
              /\ (\A k \in DOMAIN errToTime : errToTime[k] < now) =>
                    Cardinality({k \in DOMAIN errToTime' : errToTime'[k] >= now}) = 2
    ]_vars

\* C16: concurrent calls of markErrAsSent lose no update. The time a key
\* holds never decreases, and each key holds the latest of all the times
\* stamped on it, at every moment and so once all the calls have returned.
C16_NoLostUpdate ==
    /\ \A s \in stamped : s[1] \in DOMAIN errToTime /\ errToTime[s[1]] >= s[2]
    /\ \A k \in DOMAIN errToTime : <<k, errToTime[k]>> \in stamped
\* All calls have returned and some key was stamped at two different times.
C16_Witness ==
    /\ \A t \in Threads : pc[t] \in {"idle", "done"}
    /\ \E s1, s2 \in stamped : s1[1] = s2[1] /\ s1[2] < s2[2]

\* An emitter is inside a call of the store, waiting for the lock or holding it.
InStoreCall(t) ==
    pc[t] \in {"chk_g", "chk_g_r", "chk_m", "chk_m_r",
               "mark_g", "mark_g_w", "mark_m", "mark_m_w"}
\* An emitter is at a step that waits for the mail server.
AtSmtpStep(t) ==
    pc[t] \in {"dial", "mail", "rcpt", "data", "write", "sendmail",
               "close_wc", "close_conn", "p_dial"}

\* C17: the lock of the store is held only inside a call of the store, never
\* while a step that waits for the mail server is in progress, so that an
\* emitter stuck at the mail server blocks no call of another emitter; under
\* a fair scheduler every call of the store that has begun completes.
C17_StoreCallsComplete ==
    /\ [](\A t \in Threads :
            (t \in muWriters \cup muReaders) => (Reading(t) \/ Writing(t)))
    /\ [](\A t \in Threads : AtSmtpStep(t) => t \notin muWriters \cup muReaders)
    /\ \A t \in Threads : InStoreCall(t) ~> ~InStoreCall(t)
\* One emitter waits for the server to take its payload while the other
\* reads the store.
C17_Witness ==
    \E t, u \in Threads :
        /\ t # u
        /\ pc[t] = "write"
        /\ pc[u] = "chk_g_r"
        /\ u \in muReaders

\* C18: the global key and the message keys are separate entries for every
\* message text: a record whose text has never been marked as sent is
\* permitted by canSendMail as soon as one minute has passed since the last
\* alert was marked as sent.
C18_KeysIndependent ==
    (/\ ret.fn = "canSendMail"
     /\ lastAlert.n > 0
     /\ ret.key \notin DOMAIN sentAt
     /\ now >= lastAlert.tm + GeneralWindow) => ret.val

====
